---- MODULE Spec2Model ----
(***************************************************************************)
(* Py106/Packet.py: the ctypes wrapper around the IRIG 106 Chapter 10      *)
(* packet I/O library.  The Python side (class IO, the I106_Ch10* call     *)
(* wrappers, DataType.TypeName) is translated from Packet.py.  The         *)
(* library behind IrigDataDll (the enI106Ch10 entry points) is not part of *)
(* Packet.py; it is modelled from the written specification of the packet  *)
(* stream.                                                                 *)
(***************************************************************************)
EXTENDS Integers, Sequences, FiniteSets, TLC

VARIABLES
    fs,          \* the file system: path -> recording (a sequence of packets)
    io,          \* the IO objects: id -> [Handle, Header, Buffer]
    heap,        \* the Header objects, by reference (IO.Header is a reference)
    dll,         \* the library's handle table: handle -> open-file state
    gen,         \* the packet_headers generator object and what it yielded
    positioned,  \* history: per IO object, is the stream Positioned (opened OK, not closed)
    call,        \* history: the most recent call and what it returned
    catalog      \* the TypeName walk over the byte codes

vars == <<fs, io, heap, dll, gen, positioned, call, catalog>>

-----------------------------------------------------------------------------
(* Bounds of the model *)

MaxPackets == 2        \* packets per recording, manual navigation
IterMaxPackets == 3    \* packets per recording, iteration
MaxHandles == 2        \* slots of the library's handle table
MaxManual == 2         \* manual calls made while a generator is alive

-----------------------------------------------------------------------------
(* Status codes (Py106.Status, the vocabulary of the written specification) *)

OK == "OK"
EndOfFile == "EndOfFile"
BeginningOfFile == "BeginningOfFile"
FormatError == "FormatError"
ShortRead == "ShortRead"
NotFound == "NotFound"
InvalidHandle == "InvalidHandle"
\* not a status: the ctypes call itself raised (ArgumentError / OverflowError)
Raised == "raised:OverflowError"

-----------------------------------------------------------------------------
(* class Header(ctypes.Structure) *)

SyncPattern == 60197   \* 0xEB25
HeaderLen == 24        \* Sync .. Checksum, _pack_ = 1
Word == 65536
Byte == 256

\* Header(): a ctypes structure is zero-initialised
ZeroHeader ==
    [Sync |-> 0, ChID |-> 0, PacketLen |-> 0, DataLen |-> 0, HdrVer |-> 0,
     SeqNum |-> 0, PacketFlags |-> 0, DataType |-> 0,
     RefTime |-> <<0, 0, 0, 0, 0, 0>>, Checksum |-> 0,
     Time |-> <<0, 0>>, Reserved |-> 0, SecChecksum |-> 0]

\* the 11 little-endian 16-bit words in front of the Checksum field
HeaderWords(h) ==
    << h.Sync, h.ChID,
       h.PacketLen % Word, h.PacketLen \div Word,
       h.DataLen % Word, h.DataLen \div Word,
       h.HdrVer + Byte * h.SeqNum,
       h.PacketFlags + Byte * h.DataType,
       h.RefTime[1] + Byte * h.RefTime[2],
       h.RefTime[3] + Byte * h.RefTime[4],
       h.RefTime[5] + Byte * h.RefTime[6] >>

RECURSIVE sum16(_)
sum16(words) ==
    IF words = <<>> THEN 0
    ELSE (Head(words) + sum16(Tail(words))) % Word

-----------------------------------------------------------------------------
(* Recordings.  A packet is its header as stored plus the number of bytes   *)
(* of it that are in the file (less than PacketLen when the file is cut).   *)

MkHeader(ch, plen, dlen, dtype) ==
    LET h == [ZeroHeader EXCEPT !.Sync = SyncPattern, !.ChID = ch,
                                !.PacketLen = plen, !.DataLen = dlen,
                                !.HdrVer = 1, !.DataType = dtype]
    IN  [h EXCEPT !.Checksum = sum16(HeaderWords(h))]

Good(ch, plen, dlen, dtype) ==
    [hdr |-> MkHeader(ch, plen, dlen, dtype), stored |-> plen]

\* one checksum byte corrupted
BadChecksum(p) == [p EXCEPT !.hdr.Checksum = (@ + 1) % Word]

\* the cursor is not at a packet boundary marker
BadSync(p) == [p EXCEPT !.hdr.Sync = 0]

\* the file ends inside the packet
Truncated(p, n) == [p EXCEPT !.stored = n]

\* the written scenario: ChID=3, PacketLen=40, DataLen=16, TMATS; then ChID=7
PacketKinds ==
    { Good(3, 40, 16, 1),
      Good(7, 60, 36, 2),
      BadChecksum(Good(5, 40, 16, 9)),
      Good(5, 24, 64, 8),                 \* DataLen inconsistent with PacketLen
      Truncated(Good(1, 40, 16, 17), 30) }

IterKinds ==
    { Good(1, 40, 16, 1),
      Good(5, 40, 16, 9),
      BadSync(Good(5, 40, 16, 9)) }

\* channels 1,5,5,2,5
ScenarioFile ==
    << Good(1, 40, 16, 1), Good(5, 40, 16, 9), Good(5, 40, 16, 9),
       Good(2, 40, 16, 17), Good(5, 40, 16, 9) >>

SeqsUpTo(S, n) == UNION { [1..k -> S] : k \in 0..n }

Path == "rec"
MissingPath == "missing"

RECURSIVE StoredUpTo(_, _)
StoredUpTo(f, k) == IF k = 0 THEN 0 ELSE f[k].stored + StoredUpTo(f, k - 1)

FileSize(f) == StoredUpTo(f, Len(f))
PacketStart(f, k) == StoredUpTo(f, k - 1)

-----------------------------------------------------------------------------
(* The library behind IrigDataDll, modelled from the written specification *)

\* PacketHeader decode at a byte offset of the recording
Decode(f, o) ==
    IF o < 0 \/ o >= FileSize(f) THEN [status |-> EndOfFile, hdr |-> ZeroHeader]
    ELSE IF FileSize(f) - o < HeaderLen
              THEN [status |-> FormatError, hdr |-> ZeroHeader]
    ELSE LET at == { k \in 1..Len(f) : PacketStart(f, k) = o }
         IN  IF at = {} THEN [status |-> FormatError, hdr |-> ZeroHeader]
             ELSE LET h == f[CHOOSE k \in at : TRUE].hdr
                  IN  IF h.Sync # SyncPattern \/ h.Checksum # sum16(HeaderWords(h))
                      THEN [status |-> FormatError, hdr |-> ZeroHeader]
                      ELSE [status |-> OK, hdr |-> h]

ClosedSlot == [inUse |-> FALSE, file |-> "", cursor |-> 0,
               hdr |-> ZeroHeader, hdrOff |-> -1]

ValidHandle(d, h) == h \in DOMAIN d /\ d[h].inUse

FreeHandles(d) == { h \in DOMAIN d : ~d[h].inUse }

\* open in Read mode: the outcomes.  The library names a stream by an int
\* handle only; any handle not in use may be handed out.
enI106Ch10Open(d, files, file_name) ==
    IF file_name \notin DOMAIN files
    THEN { [status |-> NotFound, handle |-> -1, dll |-> d] }
    ELSE { [status |-> OK, handle |-> h,
            dll |-> [d EXCEPT ![h] = [ClosedSlot EXCEPT !.inUse = TRUE,
                                                        !.file = file_name]]]
           : h \in FreeHandles(d) }

\* close: releases the handle; OK if already closed
enI106Ch10Close(d, h) ==
    IF ValidHandle(d, h)
    THEN [status |-> OK, dll |-> [d EXCEPT ![h] = ClosedSlot]]
    ELSE [status |-> OK, dll |-> d]

\* a failed decode leaves the cursor where it was
CursorAfterFailedRead_consumed(c) == c + HeaderLen

CursorAfterFailedRead(c) == c

enI106Ch10ReadNextHeader(d, files, h, hdr) ==
    IF ~ValidHandle(d, h) THEN [status |-> InvalidHandle, dll |-> d, hdr |-> hdr]
    ELSE LET dec == Decode(files[d[h].file], d[h].cursor)
         IN  IF dec.status # OK
             THEN [status |-> dec.status,
                   dll |-> [d EXCEPT ![h].cursor = CursorAfterFailedRead(@)],
                   hdr |-> hdr]
             ELSE [status |-> OK,
                   dll |-> [d EXCEPT ![h].cursor = @ + dec.hdr.PacketLen,
                                     ![h].hdr = dec.hdr,
                                     ![h].hdrOff = d[h].cursor],
                   hdr |-> dec.hdr]

\* the packet that ends exactly where the packet last read begins
enI106Ch10ReadPrevHeader(d, files, h, hdr) ==
    IF ~ValidHandle(d, h) THEN [status |-> InvalidHandle, dll |-> d, hdr |-> hdr]
    ELSE IF d[h].hdrOff <= 0 THEN [status |-> BeginningOfFile, dll |-> d, hdr |-> hdr]
    ELSE LET f == files[d[h].file]
             cand == { k \in 1..Len(f) :
                         /\ Decode(f, PacketStart(f, k)).status = OK
                         /\ PacketStart(f, k) + f[k].hdr.PacketLen = d[h].hdrOff }
         IN  IF cand = {} THEN [status |-> FormatError, dll |-> d, hdr |-> hdr]
             ELSE LET k == CHOOSE k \in cand : TRUE
                  IN  [status |-> OK,
                       dll |-> [d EXCEPT ![h].cursor = d[h].hdrOff,
                                         ![h].hdr = f[k].hdr,
                                         ![h].hdrOff = PacketStart(f, k)],
                       hdr |-> f[k].hdr]

\* the payload of the packet last read: DataLen bytes after its header.
\* The bytes themselves are not modelled, only the status.
enI106Ch10ReadData(d, files, h, buff_size) ==
    IF ~ValidHandle(d, h) THEN InvalidHandle
    ELSE LET from == (IF d[h].hdrOff < 0 THEN 0 ELSE d[h].hdrOff) + HeaderLen
             want == d[h].hdr.DataLen
         IN  IF want > buff_size THEN FormatError
             ELSE IF want > 0 /\ from + want > FileSize(files[d[h].file])
                  THEN ShortRead
             ELSE OK

enI106Ch10FirstMsg(d, files, h) ==
    IF ~ValidHandle(d, h) THEN [status |-> InvalidHandle, dll |-> d]
    ELSE [status |-> OK, dll |-> [d EXCEPT ![h].cursor = 0]]

enI106Ch10LastMsg(d, files, h) ==
    IF ~ValidHandle(d, h) THEN [status |-> InvalidHandle, dll |-> d]
    ELSE LET f == files[d[h].file]
         IN  [status |-> OK,
              dll |-> [d EXCEPT ![h].cursor =
                           IF Len(f) = 0 THEN 0 ELSE PacketStart(f, Len(f))]]

\* sets the cursor; no packet-boundary validation
enI106Ch10SetPos(d, h, offset) ==
    IF ~ValidHandle(d, h) THEN [status |-> InvalidHandle, dll |-> d]
    ELSE [status |-> OK, dll |-> [d EXCEPT ![h].cursor = offset]]

enI106Ch10GetPos(d, h) ==
    IF ~ValidHandle(d, h) THEN [status |-> InvalidHandle, offset |-> -1]
    ELSE [status |-> OK, offset |-> d[h].cursor]

-----------------------------------------------------------------------------
(* ctypes *)

\* A Python int n is written [hi, lo] with n = hi * 2^32 + lo, 0 <= lo < 2^31.
PyInt(n) == [hi |-> 0, lo |-> n]
NoArg == [hi |-> -1, lo |-> -1]

\* A Python int passed to a foreign function that declares no argtypes goes
\* as a C int: the outcomes over the builds.  Where C long has 64 bits the
\* value is cut to its low 32 bits; where it has 32, a larger int raises.
ConvParam(p) ==
    { [raised |-> FALSE, value |-> p.lo] }
      \cup (IF p.hi # 0 THEN { [raised |-> TRUE, value |-> 0] } ELSE {})

create_string_buffer(n) == [length |-> n]

-----------------------------------------------------------------------------
(* Direct calls into the library *)

I106_Ch10Open(d, files, file_name) == enI106Ch10Open(d, files, file_name)

I106_Ch10Close(d, handle) == enI106Ch10Close(d, handle)

\* the structure goes by value: the caller's Header object is not written
I106_Ch10ReadNextHeader_byval(d, files, handle, pkt_header) ==
    [enI106Ch10ReadNextHeader(d, files, handle, pkt_header) EXCEPT !.hdr = pkt_header]

\* byref(pkt_header): the library writes the caller's Header object
I106_Ch10ReadNextHeader(d, files, handle, pkt_header) ==
    enI106Ch10ReadNextHeader(d, files, handle, pkt_header)

I106_Ch10ReadPrevHeader(d, files, handle, pkt_header) ==
    enI106Ch10ReadPrevHeader(d, files, handle, pkt_header)

I106_Ch10ReadData(d, files, handle, buff_size, data_buff) ==
    [status |-> enI106Ch10ReadData(d, files, handle, buff_size), buff |-> data_buff]

I106_Ch10FirstMsg(d, files, handle) == enI106Ch10FirstMsg(d, files, handle)

I106_Ch10LastMsg(d, files, handle) == enI106Ch10LastMsg(d, files, handle)

\* offset is handed over as it is, a Python int
I106_Ch10SetPos(d, handle, offset) ==
    { IF c.raised THEN [status |-> Raised, dll |-> d]
      ELSE enI106Ch10SetPos(d, handle, c.value) : c \in ConvParam(offset) }

\* offset = c_uint64(0), written by the library through byref
I106_Ch10GetPos(d, handle) ==
    LET r == enI106Ch10GetPos(d, handle)
    IN  [status |-> r.status,
         offset |-> IF r.status = OK THEN PyInt(r.offset) ELSE PyInt(0)]

-----------------------------------------------------------------------------
(* class IO *)

\* __init__: _Handle = c_uint32(-1), which an int parameter reads as -1;
\* Header = Header(), the object at reference ref; Buffer of length 0
IO__init__(ref) ==
    [Handle |-> -1, Header |-> ref, Buffer |-> create_string_buffer(0)]

\* read_data: a new buffer whenever the whole packet would not fit
NeedsNewBuffer_always(hdr, buf) == TRUE

NeedsNewBuffer_payload(hdr, buf) == hdr.DataLen > buf.length

NeedsNewBuffer(hdr, buf) == hdr.PacketLen > buf.length

\* packet_headers: the channel filter
Passes_nonempty(ch_ids, hdr) == hdr.ChID \in ch_ids

Passes(ch_ids, hdr) == (Cardinality(ch_ids) = 0) \/ (hdr.ChID \in ch_ids)

\* packet_headers: what "yield self.Header" hands to the consumer
YieldObject_copy(hp, ref) ==
    [heap |-> Append(hp, hp[ref]), ref |-> Len(hp) + 1]

YieldObject(hp, ref) == [heap |-> hp, ref |-> ref]

-----------------------------------------------------------------------------
(* History of calls *)

CursorOf(d, h) == IF ValidHandle(d, h) THEN d[h].cursor ELSE -1

NoCall ==
    [op |-> "none", self |-> 0, status |-> "", arg |-> NoArg, out |-> NoArg,
     preCursor |-> -1, preCap |-> -1, replaced |-> FALSE,
     wasPositioned |-> FALSE, acted |-> FALSE, prevSetPos |-> NoArg]

\* a read/seek call by IO object s that returned status and left the library at d2
Call(op, s, status, d2) ==
    [NoCall EXCEPT !.op = op, !.self = s, !.status = status,
                   !.wasPositioned = positioned[s],
                   !.acted = (d2 # dll \/ status = OK)]

NoGen ==
    [state |-> "none", self |-> 0, ch_ids |-> {}, RetStatus |-> "",
     yielded |-> <<>>, seen |-> <<>>, okReads |-> <<>>, from |-> -1,
     manual |-> 0]

\* the consumer may call: no generator frame is executing
ManualOK ==
    \/ gen.state \in {"none", "created"}
    \/ gen.state \in {"suspended", "done"} /\ gen.manual < MaxManual

GenAfterManual ==
    IF gen.state \in {"suspended", "done"} THEN [gen EXCEPT !.manual = @ + 1]
    ELSE gen

FileNames == {Path, MissingPath}

\* set_pos arguments: inside a packet, a packet boundary, and 2^32 + 40
Offsets == { PyInt(8), PyInt(40), [hi |-> 1, lo |-> 40] }

\* set_pos arguments that fit a C int
SmallOffsets == { PyInt(40) }

Filters == { {}, {5}, {1, 2} }

-----------------------------------------------------------------------------
(* The methods of IO, one action each *)

\* called on a stream that is not open (Closed -> open -> Positioned)
open(s) ==
    /\ ManualOK
    /\ ~ValidHandle(dll, io[s].Handle)
    /\ \E file_name \in FileNames :
         \E r \in I106_Ch10Open(dll, fs, file_name) :
            /\ io' = [io EXCEPT ![s].Handle = r.handle]
            /\ dll' = r.dll
            /\ positioned' = [positioned EXCEPT ![s] = (r.status = OK)]
            /\ call' = [NoCall EXCEPT !.op = "open", !.self = s, !.status = r.status]
    /\ gen' = GenAfterManual
    /\ UNCHANGED <<fs, heap, catalog>>

close(s) ==
    /\ ManualOK
    /\ LET r == I106_Ch10Close(dll, io[s].Handle)
       IN  /\ dll' = r.dll
           /\ call' = [NoCall EXCEPT !.op = "close", !.self = s, !.status = r.status]
    /\ positioned' = [positioned EXCEPT ![s] = FALSE]
    /\ gen' = GenAfterManual
    /\ UNCHANGED <<fs, io, heap, catalog>>

read_next_header(s) ==
    /\ ManualOK
    /\ LET r == I106_Ch10ReadNextHeader(dll, fs, io[s].Handle, heap[io[s].Header])
       IN  /\ dll' = r.dll
           /\ heap' = [heap EXCEPT ![io[s].Header] = r.hdr]
           /\ call' = [Call("read_next_header", s, r.status, r.dll)
                         EXCEPT !.preCursor = CursorOf(dll, io[s].Handle)]
    /\ gen' = GenAfterManual
    /\ UNCHANGED <<fs, io, positioned, catalog>>

read_prev_header(s) ==
    /\ ManualOK
    /\ LET r == I106_Ch10ReadPrevHeader(dll, fs, io[s].Handle, heap[io[s].Header])
       IN  /\ dll' = r.dll
           /\ heap' = [heap EXCEPT ![io[s].Header] = r.hdr]
           /\ call' = Call("read_prev_header", s, r.status, r.dll)
    /\ gen' = GenAfterManual
    /\ UNCHANGED <<fs, io, positioned, catalog>>

read_data(s) ==
    /\ ManualOK
    /\ LET hdr == heap[io[s].Header]
           new == NeedsNewBuffer(hdr, io[s].Buffer)
           buf == IF new THEN create_string_buffer(hdr.PacketLen) ELSE io[s].Buffer
           r == I106_Ch10ReadData(dll, fs, io[s].Handle, buf.length, buf)
       IN  /\ io' = [io EXCEPT ![s].Buffer = r.buff]
           /\ call' = [Call("read_data", s, r.status, dll)
                         EXCEPT !.preCap = io[s].Buffer.length, !.replaced = new]
    /\ gen' = GenAfterManual
    /\ UNCHANGED <<fs, heap, dll, positioned, catalog>>

first(s) ==
    /\ ManualOK
    /\ LET r == I106_Ch10FirstMsg(dll, fs, io[s].Handle)
       IN  /\ dll' = r.dll
           /\ call' = Call("first", s, r.status, r.dll)
    /\ gen' = GenAfterManual
    /\ UNCHANGED <<fs, io, heap, positioned, catalog>>

last(s) ==
    /\ ManualOK
    /\ LET r == I106_Ch10LastMsg(dll, fs, io[s].Handle)
       IN  /\ dll' = r.dll
           /\ call' = Call("last", s, r.status, r.dll)
    /\ gen' = GenAfterManual
    /\ UNCHANGED <<fs, io, heap, positioned, catalog>>

set_pos_in(s, offsets) ==
    /\ ManualOK
    /\ \E offset \in offsets :
         \E r \in I106_Ch10SetPos(dll, io[s].Handle, offset) :
            /\ dll' = r.dll
            /\ call' = [Call("set_pos", s, r.status, r.dll) EXCEPT !.arg = offset]
    /\ gen' = GenAfterManual
    /\ UNCHANGED <<fs, io, heap, positioned, catalog>>

set_pos(s) == set_pos_in(s, Offsets)

get_pos(s) ==
    /\ ManualOK
    /\ LET r == I106_Ch10GetPos(dll, io[s].Handle)
       IN  call' = [Call("get_pos", s, r.status, dll)
                      EXCEPT !.out = r.offset,
                             !.prevSetPos =
                                 IF call.op = "set_pos" /\ call.self = s
                                 THEN call.arg ELSE NoArg]
    /\ gen' = GenAfterManual
    /\ UNCHANGED <<fs, io, heap, dll, positioned, catalog>>

-----------------------------------------------------------------------------
(* packet_headers(ch_ids): the generator *)

\* calling packet_headers makes the generator object; no line of it runs yet
packet_headers(s) ==
    /\ gen.state = "none"
    /\ \E ch_ids \in Filters :
         gen' = [NoGen EXCEPT !.state = "created", !.self = s, !.ch_ids = ch_ids]
    /\ UNCHANGED <<fs, io, heap, dll, positioned, call, catalog>>

\* RetStatus = self.read_next_header(), inside the generator frame
GenRead ==
    LET s == gen.self
        r == I106_Ch10ReadNextHeader(dll, fs, io[s].Handle, heap[io[s].Header])
    IN  /\ dll' = r.dll
        /\ heap' = [heap EXCEPT ![io[s].Header] = r.hdr]
        /\ call' = [Call("read_next_header", s, r.status, r.dll)
                      EXCEPT !.preCursor = CursorOf(dll, io[s].Handle)]
        /\ gen' = [gen EXCEPT
                     !.state = "running",
                     !.RetStatus = r.status,
                     !.okReads = IF r.status = OK THEN Append(@, r.hdr) ELSE @,
                     !.from = IF gen.state = "created"
                              THEN CursorOf(dll, io[s].Handle) ELSE @]
        /\ UNCHANGED <<fs, io, positioned, catalog>>

\* the consumer asks for the next header: the frame starts, or resumes after the yield
GenResume ==
    /\ gen.state \in {"created", "suspended"}
    /\ GenRead

\* while RetStatus == Status.OK: false, the generator returns
GenStop ==
    /\ gen.state = "running"
    /\ gen.RetStatus # OK
    /\ gen' = [gen EXCEPT !.state = "done"]
    /\ UNCHANGED <<fs, io, heap, dll, positioned, call, catalog>>

\* the header passes the filter: yield self.Header
GenYield ==
    /\ gen.state = "running"
    /\ gen.RetStatus = OK
    /\ Passes(gen.ch_ids, heap[io[gen.self].Header])
    /\ LET y == YieldObject(heap, io[gen.self].Header)
       IN  /\ heap' = y.heap
           /\ gen' = [gen EXCEPT !.state = "suspended",
                                 !.yielded = Append(@, y.ref),
                                 !.seen = Append(@, y.heap[y.ref])]
    /\ UNCHANGED <<fs, io, dll, positioned, call, catalog>>

\* the header does not pass: read the next one
GenSkip ==
    /\ gen.state = "running"
    /\ gen.RetStatus = OK
    /\ ~Passes(gen.ch_ids, heap[io[gen.self].Header])
    /\ GenRead

-----------------------------------------------------------------------------
(* DataType.TypeName *)

USER_DEFINED == 0
TMATS == 1
RECORDING_EVENT == 2
RECORDING_INDEX == 3
COMPUTER_4 == 4
COMPUTER_5 == 5
COMPUTER_6 == 6
COMPUTER_7 == 7
PCM_FMT_0 == 8
PCM_FMT_1 == 9
IRIG_TIME == 17
MIL1553_FMT_1 == 25
MIL1553_16PP194 == 26
ANALOG == 33
DISCRETE == 41
MESSAGE == 48
ARINC_429_FMT_0 == 56
VIDEO_FMT_0 == 64
VIDEO_FMT_1 == 65
VIDEO_FMT_2 == 66
IMAGE_FMT_0 == 72
IMAGE_FMT_1 == 73
UART_FMT_0 == 80
IEEE1394_FMT_0 == 88
IEEE1394_FMT_1 == 89
PARALLEL_FMT_0 == 96
ETHERNET_FMT_0 == 104
CAN_BUS == 120
FIBRE_CHAN_FMT_0 == 121
FIBRE_CHAN_FMT_1 == 122

\* the dict literal of TypeName, in its order
name ==
    << <<USER_DEFINED, "User Defined">>,
       <<TMATS, "TMATS">>,
       <<RECORDING_EVENT, "Event">>,
       <<RECORDING_INDEX, "Index">>,
       <<COMPUTER_4, "Computer Generated 4">>,
       <<COMPUTER_5, "Computer Generated 5">>,
       <<COMPUTER_6, "Computer Generated 6">>,
       <<COMPUTER_7, "Computer Generated 7">>,
       <<PCM_FMT_0, "PCM Format 0">>,
       <<PCM_FMT_1, "PCM Format 1">>,
       <<IRIG_TIME, "Time">>,
       <<MIL1553_FMT_1, "1553">>,
       <<MIL1553_16PP194, "16PP194">>,
       <<ANALOG, "Analog">>,
       <<DISCRETE, "Discrete">>,
       <<MESSAGE, "Message">>,
       <<ARINC_429_FMT_0, "ARINC 429">>,
       <<VIDEO_FMT_0, "Video Format 0">>,
       <<VIDEO_FMT_1, "Video Format 1">>,
       <<VIDEO_FMT_2, "Video Format 2">>,
       <<IMAGE_FMT_0, "Image Format 0">>,
       <<IMAGE_FMT_1, "Image Format 1">>,
       <<UART_FMT_0, "UART">>,
       <<IEEE1394_FMT_0, "IEEE 1394 Format 0">>,
       <<IEEE1394_FMT_1, "IEEE 1394 Format 1">>,
       <<PARALLEL_FMT_0, "Parallel">>,
       <<ETHERNET_FMT_0, "Ethernet">>,
       <<CAN_BUS, "CAN Bus">>,
       <<FIBRE_CHAN_FMT_0, "Fibre Channel Format 0">>,
       <<FIBRE_CHAN_FMT_1, "Fibre Channel Format 1">> >>

\* name.get(TypeNum, "Undefined") over a dict d given as its items
DictGet(d, key, default) ==
    LET hits == { i \in 1..Len(d) : d[i][1] = key }
    IN  IF hits = {} THEN default
        ELSE d[CHOOSE i \in hits : \A j \in hits : j <= i][2]

\* the table without its last entry
TypeName_short(TypeNum) == DictGet(SubSeq(name, 1, Len(name) - 1), TypeNum, "Undefined")

TypeName(TypeNum) == DictGet(name, TypeNum, "Undefined")

MaxByte == 255     \* c_uint8

CatalogInit == [TypeNum |-> 0, result |-> "", named |-> 0]

\* TypeName(TypeNum) for the byte codes in turn, counting the named ones
TypeNameCall ==
    /\ catalog.TypeNum <= MaxByte
    /\ LET r == TypeName(catalog.TypeNum)
       IN  catalog' = [TypeNum |-> catalog.TypeNum + 1, result |-> r,
                       named |-> catalog.named + (IF r # "Undefined" THEN 1 ELSE 0)]
    /\ UNCHANGED <<fs, io, heap, dll, gen, positioned, call>>

-----------------------------------------------------------------------------
(* Specifications *)

InitObjects(ios, slots) ==
    /\ io = [s \in ios |-> IO__init__(s)]
    /\ heap = [s \in ios |-> ZeroHeader]
    /\ dll = [h \in 0..(slots - 1) |-> ClosedSlot]
    /\ gen = NoGen
    /\ positioned = [s \in ios |-> FALSE]
    /\ call = NoCall
    /\ catalog = CatalogInit

\* one IO object, navigated by hand
Init ==
    /\ \E f \in SeqsUpTo(PacketKinds, MaxPackets) : fs = [p \in {Path} |-> f]
    /\ InitObjects({1}, 1)

Next ==
    \/ \E s \in DOMAIN io : open(s)
    \/ \E s \in DOMAIN io : close(s)
    \/ \E s \in DOMAIN io : read_next_header(s)
    \/ \E s \in DOMAIN io : read_prev_header(s)
    \/ \E s \in DOMAIN io : read_data(s)
    \/ \E s \in DOMAIN io : first(s)
    \/ \E s \in DOMAIN io : last(s)
    \/ \E s \in DOMAIN io : set_pos(s)
    \/ \E s \in DOMAIN io : get_pos(s)

Spec == Init /\ [][Next]_vars

\* one IO object, iterated with packet_headers
InitIter ==
    /\ \E f \in SeqsUpTo(IterKinds, IterMaxPackets) \cup {ScenarioFile} :
          fs = [p \in {Path} |-> f]
    /\ InitObjects({1}, 1)

NextIter ==
    \/ \E s \in DOMAIN io : open(s)
    \/ \E s \in DOMAIN io : read_next_header(s)
    \/ \E s \in DOMAIN io : read_prev_header(s)
    \/ \E s \in DOMAIN io : read_data(s)
    \/ \E s \in DOMAIN io : packet_headers(s)
    \/ GenResume
    \/ GenStop
    \/ GenYield
    \/ GenSkip

SpecIter == InitIter /\ [][NextIter]_vars

\* two IO objects over one library
InitShared ==
    /\ fs = [p \in {Path} |-> << Good(3, 40, 16, 1) >>]
    /\ InitObjects({1, 2}, MaxHandles)

NextShared ==
    \/ \E s \in DOMAIN io : open(s)
    \/ \E s \in DOMAIN io : close(s)
    \/ \E s \in DOMAIN io : read_next_header(s)
    \/ \E s \in DOMAIN io : read_prev_header(s)
    \/ \E s \in DOMAIN io : read_data(s)
    \/ \E s \in DOMAIN io : first(s)
    \/ \E s \in DOMAIN io : last(s)
    \/ \E s \in DOMAIN io : set_pos_in(s, SmallOffsets)
    \/ \E s \in DOMAIN io : get_pos(s)

SpecShared == InitShared /\ [][NextShared]_vars

\* the catalog, walked over every byte code
InitCatalog ==
    /\ fs = [p \in {Path} |-> <<>>]
    /\ InitObjects({1}, 1)

NextCatalog == TypeNameCall

SpecCatalog == InitCatalog /\ [][NextCatalog]_vars

-----------------------------------------------------------------------------
(* Properties *)

\* the headers that repeating read_next_header by hand from offset c returns
RECURSIVE ReadsFrom(_, _)
ReadsFrom(f, c) ==
    LET dec == Decode(f, c)
    IN  IF dec.status # OK THEN <<>>
        ELSE <<dec.hdr>> \o ReadsFrom(f, c + dec.hdr.PacketLen)

ReadSeekOps ==
    {"read_next_header", "read_prev_header", "read_data",
     "first", "last", "set_pos", "get_pos"}

\* C1: whenever the consumer holds the generator (suspended at a yield, or
\* finished), the headers it was handed are, in order, exactly those of the
\* generator's successful read_next_header calls whose ChID is in the
\* filter, all of them when the filter is empty; with no manual call in
\* between these reads are the ones repeating read_next_header by hand
\* gives from the same offset; and channels 1,5,5,2,5 under the filter {5}
\* give exactly 3 headers, all of channel 5.
C1_IteratorYieldsFilteredReads ==
    gen.state \in {"suspended", "done"} =>
        LET Keep(h) == gen.ch_ids = {} \/ h.ChID \in gen.ch_ids
            byHand == ReadsFrom(fs[Path], gen.from)
            n == Len(gen.okReads)
        IN  /\ gen.seen = SelectSeq(gen.okReads, Keep)
            /\ (gen.manual = 0 /\ gen.from >= 0) =>
                  /\ n <= Len(byHand)
                  /\ gen.okReads = SubSeq(byHand, 1, n)
                  /\ gen.state = "done" => n = Len(byHand)
            /\ ( /\ fs[Path] = ScenarioFile
                 /\ gen.ch_ids = {5}
                 /\ gen.from = 0
                 /\ gen.manual = 0
                 /\ gen.state = "done" ) =>
                  /\ Len(gen.seen) = 3
                  /\ \A i \in 1..Len(gen.seen) : gen.seen[i].ChID = 5

C1_Witness ==
    /\ gen.state = "done"
    /\ fs[Path] = ScenarioFile
    /\ gen.ch_ids = {5}
    /\ gen.from = 0
    /\ gen.manual = 0
    /\ Len(gen.seen) = 3

\* C2: the generator returns normally only when read_next_header returned
\* EndOfFile; any other status ends the iteration as a failure.
C2_NormalEndOnlyAtEndOfFile ==
    gen.state = "done" => gen.RetStatus = EndOfFile

\* C3: a read_next_header that returns OK leaves the cursor exactly PacketLen
\* past where it was and the decoded header in IO.Header, so that the cursor
\* is at the packet that follows (PacketLen=40 at offset 0 is followed by a
\* read at offset 40).
C3_ReadNextAdvancesByPacketLen ==
    (call.op = "read_next_header" /\ call.status = OK) =>
        LET s == call.self
            h == io[s].Handle
            f == fs[dll[h].file]
            hdr == heap[io[s].Header]
        IN  /\ hdr = Decode(f, call.preCursor).hdr
            /\ dll[h].cursor = call.preCursor + hdr.PacketLen
            /\ \A k \in 1..Len(f) :
                  (PacketStart(f, k) = call.preCursor /\ f[k].stored = hdr.PacketLen)
                     => dll[h].cursor = PacketStart(f, k + 1)
            /\ (call.preCursor = 0 /\ hdr.PacketLen = 40) => dll[h].cursor = 40

C3_Witness ==
    /\ call.op = "read_next_header"
    /\ call.status = OK
    /\ call.preCursor = 40
    /\ heap[io[call.self].Header].ChID = 7
    /\ fs[Path][1].hdr.ChID = 3

\* C4: a read_next_header that returns FormatError leaves the cursor where
\* it was: get_pos after the call gives the offset it gave before.
C4_FormatErrorKeepsCursor ==
    (call.op = "read_next_header" /\ call.status = FormatError) =>
        LET h == io[call.self].Handle
        IN  /\ dll[h].cursor = call.preCursor
            /\ I106_Ch10GetPos(dll, h) = [status |-> OK, offset |-> PyInt(call.preCursor)]

C4_Witness ==
    /\ call.op = "read_next_header"
    /\ call.status = FormatError
    /\ \E k \in 1..Len(fs[Path]) :
          /\ PacketStart(fs[Path], k) = call.preCursor
          /\ fs[Path][k].hdr.Sync = SyncPattern
          /\ fs[Path][k].hdr.Checksum # sum16(HeaderWords(fs[Path][k].hdr))

\* C5: the capacity of the payload buffer starts at 0, no step makes it
\* smaller, and only read_data changes it.
C5_BufferCapacityNeverDecreases ==
    /\ \A s \in DOMAIN io : io[s].Buffer.length = 0
    /\ [][ \A s \in DOMAIN io :
              /\ io'[s].Buffer.length >= io[s].Buffer.length
              /\ io'[s].Buffer.length # io[s].Buffer.length
                    => (call'.op = "read_data" /\ call'.self = s) ]_vars

C5_Witness ==
    /\ call.op = "read_data"
    /\ call.replaced
    /\ call.preCap > 0
    /\ io[call.self].Buffer.length > call.preCap

C7_ThirtyNamedCodes ==
    /\ catalog.TypeNum > 0 =>
          catalog.result \in {name[i][2] : i \in 1..Len(name)} \cup {"Undefined"}
    /\ catalog.named <= 30
    /\ catalog.TypeNum = MaxByte + 1 => catalog.named = 30

C7_Witness ==
    /\ catalog.TypeNum = MaxByte + 1
    /\ catalog.named = 30
    /\ catalog.result = "Undefined"

\* C7 as claimed: TypeName returns a name other than "Undefined" for exactly
\* 29 of the 256 byte codes.
C7_TwentyNineNamedCodes ==
    /\ catalog.named <= 29
    /\ catalog.TypeNum = MaxByte + 1 => catalog.named = 29

\* C8: a read/seek call on an IO object whose stream is not Positioned
\* (never opened, or closed) returns InvalidHandle and touches no open
\* recording.
C8_NotPositionedFailsInvalidHandle ==
    (call.op \in ReadSeekOps /\ ~call.wasPositioned) =>
        (call.status = InvalidHandle /\ ~call.acted)

\* C9: on an open stream, get_pos right after set_pos(p) returns OK and
\* exactly p, for every offset p.
C9_SetPosThenGetPos ==
    ( /\ call.op = "get_pos"
      /\ call.prevSetPos # NoArg
      /\ ValidHandle(dll, io[call.self].Handle) ) =>
        (call.status = OK /\ call.out = call.prevSetPos)

\* C10: every header the generator has yielded is IO.Header itself: all of
\* them are one object, and each shows the header most recently decoded for
\* the stream, whatever it showed when it was yielded.
C10_YieldedHeadersAreIOHeader ==
    \A i \in 1..Len(gen.yielded) :
        LET s == gen.self
        IN  /\ gen.yielded[i] = io[s].Header
            /\ \A j \in 1..Len(gen.yielded) :
                  heap[gen.yielded[i]] = heap[gen.yielded[j]]
            /\ ValidHandle(dll, io[s].Handle) =>
                  heap[gen.yielded[i]] = dll[io[s].Handle].hdr

C10_Witness ==
    /\ Len(gen.yielded) >= 2
    /\ gen.seen[1] # heap[gen.yielded[1]]
    /\ gen.seen[1] # gen.seen[2]

====
